---------------------------- MODULE Spec2Model ----------------------------
(***************************************************************************)
(* A model of src/app.py: the AdvancedPDFTableExtractor class, the export  *)
(* helper create_excel_download and the driver main.                       *)
(*                                                                         *)
(* A string is a sequence of one-character strings.  A coordinate is an    *)
(* integer number of HALF layout units (y0 = 9 stands for 4.5), so that    *)
(* round() has halves to round.  A DataFrame is a record [headers, rows].  *)
(***************************************************************************)
EXTENDS Integers, Sequences, FiniteSets

(***************************************************************************)
(* Characters and Python's string methods.                                 *)
(***************************************************************************)
TAB == "\t"
NL == "\n"
SP == " "

\* the characters str.strip() removes and the regex class \s matches
Whitespace == {SP, TAB, NL}

\* c in s
Contains(s, c) == \E i \in 1..Len(s) : s[i] = c

\* s.count(c)
Count(s, c) == Cardinality({i \in 1..Len(s) : s[i] = c})

\* s.strip()
Strip(s) ==
    LET keep == {i \in 1..Len(s) : s[i] \notin Whitespace}
    IN  IF keep = {} THEN <<>>
        ELSE LET lo == CHOOSE i \in keep : \A j \in keep : i <= j
                 hi == CHOOSE i \in keep : \A j \in keep : j <= i
             IN  SubSeq(s, lo, hi)

\* re.sub(r'\s+', ' ', s): every maximal run of whitespace becomes one space
RECURSIVE CollapseWhitespace(_)
CollapseWhitespace(s) ==
    IF s = <<>> THEN <<>>
    ELSE IF Head(s) \in Whitespace
         THEN IF Len(s) > 1 /\ s[2] \in Whitespace
              THEN CollapseWhitespace(Tail(s))
              ELSE <<SP>> \o CollapseWhitespace(Tail(s))
         ELSE <<Head(s)>> \o CollapseWhitespace(Tail(s))

\* s.split(c): Count(s, c) + 1 pieces, the empty string gives one empty piece
RECURSIVE Split(_, _)
Split(s, c) ==
    IF ~Contains(s, c) THEN <<s>>
    ELSE LET i == CHOOSE k \in 1..Len(s) :
                      s[k] = c /\ \A j \in 1..(k - 1) : s[j] # c
         IN  <<SubSeq(s, 1, i - 1)>> \o Split(SubSeq(s, i + 1, Len(s)), c)

\* c.join(parts)
RECURSIVE Join(_, _)
Join(parts, c) ==
    IF parts = <<>> THEN <<>>
    ELSE IF Len(parts) = 1 THEN parts[1]
         ELSE parts[1] \o <<c>> \o Join(Tail(parts), c)

\* sorted(s, key=...) and list.sort(key=...): stable, Less compares the keys
StableSort(s, Less(_, _)) ==
    LET n == Len(s)
        rank(i) == Cardinality({j \in 1..n :
                       Less(s[j], s[i]) \/ (~Less(s[i], s[j]) /\ j < i)}) + 1
    IN  [k \in 1..n |-> s[CHOOSE i \in 1..n : rank(i) = k]]

\* [f(x) for x in s if keep(x)]
RECURSIVE SelectIdx(_, _)
SelectIdx(n, keep) ==
    IF n = 0 THEN <<>>
    ELSE IF n \in keep THEN Append(SelectIdx(n - 1, keep), n)
         ELSE SelectIdx(n - 1, keep)

Filter(s, Keep(_)) ==
    LET idx == SelectIdx(Len(s), {i \in 1..Len(s) : Keep(s[i])})
    IN  [k \in 1..Len(idx) |-> s[idx[k]]]

\* round(y) of Python 3 on y = h/2: halves go to the even neighbour
Round(h) ==
    LET k == h \div 2
    IN  IF h % 2 = 0 THEN k ELSE IF k % 2 = 0 THEN k ELSE k + 1

Abs(n) == IF n < 0 THEN -n ELSE n

(***************************************************************************)
(* AdvancedPDFTableExtractor                                               *)
(***************************************************************************)
min_row_gap == 5

Categories == {"regular_tables", "tab_separated", "colon_separated", "other_delimited"}

\* __init__: the four empty lists
EmptyTables == [c \in Categories |-> <<>>]

\* the element classes extract_all_tables keeps, and the one that carries text
KeptKinds == {"LTTextContainer", "LTRect", "LTLine", "LTFigure"}
IsText(e) == e.kind = "LTTextContainer"
IsKept(e) == e.kind \in KeptKinds

\* _create_dataframe without the padding branch (lines 155-156)
NoPadCreateDataframe(table_data) ==
    LET headers == Head(table_data)
        rows == Tail(table_data)
        max_cols == Len(headers)
    IN  [headers |-> headers,
         rows |-> [i \in 1..Len(rows) |->
                     IF Len(rows[i]) > max_cols
                     THEN SubSeq(rows[i], 1, max_cols)
                     ELSE rows[i]]]

\* _create_dataframe with a truncation that keeps the last cells (line 154)
KeepLastCreateDataframe(table_data) ==
    LET headers == Head(table_data)
        rows == Tail(table_data)
        max_cols == Len(headers)
    IN  [headers |-> headers,
         rows |-> [i \in 1..Len(rows) |->
                     IF Len(rows[i]) > max_cols
                     THEN SubSeq(rows[i], Len(rows[i]) - max_cols + 1, Len(rows[i]))
                     ELSE IF Len(rows[i]) < max_cols
                          THEN rows[i] \o [j \in 1..(max_cols - Len(rows[i])) |-> <<>>]
                          ELSE rows[i]]]

\* _create_dataframe
_create_dataframe(table_data) ==
    LET headers == Head(table_data)
        rows == Tail(table_data)
        max_cols == Len(headers)
    IN  [headers |-> headers,
         rows |-> [i \in 1..Len(rows) |->
                     IF Len(rows[i]) > max_cols
                     THEN SubSeq(rows[i], 1, max_cols)
                     ELSE IF Len(rows[i]) < max_cols
                          THEN rows[i] \o [j \in 1..(max_cols - Len(rows[i])) |-> <<>>]
                          ELSE rows[i]]]

\* _extract_regular_tables, lines 63-77: the rows as lists of elements,
\* keyed by round(y0), keys descending, each row sorted by x0
RowKeys(elements) ==
    {Round(elements[i].y0) : i \in {j \in 1..Len(elements) : IsText(elements[j])}}

RECURSIVE KeysDescending(_)
KeysDescending(keys) ==
    IF keys = {} THEN <<>>
    ELSE LET top == CHOOSE y \in keys : \A z \in keys : z <= y
         IN  <<top>> \o KeysDescending(keys \ {top})

LessX0(a, b) == a.x0 < b.x0

RowElements(elements) ==
    LET sorted_keys == KeysDescending(RowKeys(elements))
        InRow(y) == Filter(elements, LAMBDA e : IsText(e) /\ Round(e.y0) = y)
    IN  [k \in 1..Len(sorted_keys) |-> StableSort(InRow(sorted_keys[k]), LessX0)]

\* _extract_regular_tables, lines 75-79: table_data
RegularTableData(elements) ==
    LET rows == RowElements(elements)
    IN  [k \in 1..Len(rows) |-> [j \in 1..Len(rows[k]) |-> Strip(rows[k][j].text)]]

\* _group_text_blocks
LessY1X0(a, b) == a.y1 > b.y1 \/ (a.y1 = b.y1 /\ a.x0 < b.x0)

RECURSIVE GroupWalk(_, _, _, _)
GroupWalk(sorted_elements, i, blocks, current_block) ==
    IF i > Len(sorted_elements)
    THEN IF current_block # <<>> THEN Append(blocks, Join(current_block, NL)) ELSE blocks
    ELSE LET element == sorted_elements[i]
             new == i = 1 \/ Abs(sorted_elements[i - 1].y1 - element.y1) > 2 * min_row_gap
         IN  IF new /\ current_block # <<>>
             THEN GroupWalk(sorted_elements, i + 1,
                            Append(blocks, Join(current_block, NL)), <<element.text>>)
             ELSE GroupWalk(sorted_elements, i + 1, blocks,
                            Append(current_block, element.text))

\* a walk that measures the gap from the first element of the current block
RECURSIVE GroupWalkFromStart(_, _, _, _, _)
GroupWalkFromStart(sorted_elements, i, blocks, current_block, start_y) ==
    IF i > Len(sorted_elements)
    THEN IF current_block # <<>> THEN Append(blocks, Join(current_block, NL)) ELSE blocks
    ELSE LET element == sorted_elements[i]
             new == i = 1 \/ Abs(start_y - element.y1) > 2 * min_row_gap
         IN  IF new /\ current_block # <<>>
             THEN GroupWalkFromStart(sorted_elements, i + 1,
                                     Append(blocks, Join(current_block, NL)),
                                     <<element.text>>, element.y1)
             ELSE GroupWalkFromStart(sorted_elements, i + 1, blocks,
                                     Append(current_block, element.text),
                                     IF i = 1 THEN element.y1 ELSE start_y)

GroupFromBlockStart(elements) ==
    GroupWalkFromStart(StableSort(elements, LessY1X0), 1, <<>>, <<>>, 0)

_group_text_blocks(elements) ==
    GroupWalk(StableSort(elements, LessY1X0), 1, <<>>, <<>>)

\* _process_delimited_table, lines 110-116: table_data
DelimitedTableData(lines, delimiter) ==
    LET with == Filter(lines, LAMBDA line : Contains(line, delimiter))
    IN  [k \in 1..Len(with) |->
           LET cleaned == CollapseWhitespace(Strip(with[k]))
               cells == Split(cleaned, delimiter)
           IN  [j \in 1..Len(cells) |-> Strip(cells[j])]]

\* _extract_delimited_tables, lines 93-106: the call of _process_delimited_table
\* a block's lines lead to, as <<[delimiter, table_type]>>, or <<>> for none
OtherDelimiters == <<"|", ";", ",">>

Repeated(lines, d) == \E i \in 1..Len(lines) : Contains(lines[i], d) /\ Count(lines[i], d) > 1

\* the classification with the colon test ahead of the tab test
ClassifyColonFirst(lines) ==
    IF Repeated(lines, ":")
    THEN <<[delimiter |-> ":", table_type |-> "colon_separated"]>>
    ELSE IF \E i \in 1..Len(lines) : Contains(lines[i], TAB)
         THEN <<[delimiter |-> TAB, table_type |-> "tab_separated"]>>
         ELSE LET hits == {k \in 1..Len(OtherDelimiters) : Repeated(lines, OtherDelimiters[k])}
              IN  IF hits = {} THEN <<>>
                  ELSE <<[delimiter |-> OtherDelimiters[CHOOSE k \in hits : \A m \in hits : k <= m],
                          table_type |-> "other_delimited"]>>

Classify(lines) ==
    IF \E i \in 1..Len(lines) : Contains(lines[i], TAB)
    THEN <<[delimiter |-> TAB, table_type |-> "tab_separated"]>>
    ELSE IF Repeated(lines, ":")
         THEN <<[delimiter |-> ":", table_type |-> "colon_separated"]>>
         ELSE LET hits == {k \in 1..Len(OtherDelimiters) : Repeated(lines, OtherDelimiters[k])}
              IN  IF hits = {} THEN <<>>
                  ELSE <<[delimiter |-> OtherDelimiters[CHOOSE k \in hits : \A m \in hits : k <= m],
                          table_type |-> "other_delimited"]>>

\* an insert at the front of the list
PrependTable(list, df, src) == <<[table |-> df, src |-> src]>> \o list

\* all_tables[table_type].append(df); src tags the table with the call, page
\* and block it came from (block 0: the page's regular table)
AppendTable(list, df, src) == Append(list, [table |-> df, src |-> src])

\* _extract_regular_tables, lines 81-83: the call log of the page's regular pass
RegularCalls(elements) ==
    <<[block |-> 0, lines |-> <<>>, delimiter |-> "", table_type |-> "regular_tables",
       table_data |-> RegularTableData(elements)]>>

\* _extract_delimited_tables: one call of _process_delimited_table per block
\* that Classify gives a delimiter, in block order
RECURSIVE DelimitedCalls(_, _)
DelimitedCalls(text_blocks, b) ==
    IF b > Len(text_blocks) THEN <<>>
    ELSE LET lines == Split(text_blocks[b], NL)
             choice == Classify(lines)
         IN  (IF choice = <<>> THEN <<>>
              ELSE <<[block |-> b, lines |-> lines,
                      delimiter |-> choice[1].delimiter,
                      table_type |-> choice[1].table_type,
                      table_data |-> DelimitedTableData(lines, choice[1].delimiter)]>>)
             \o DelimitedCalls(text_blocks, b + 1)

\* lines 81-83 and 118-120: a table_data of more than one row is stored
RECURSIVE Store(_, _, _, _)
Store(tables, calls_made, call, page) ==
    IF calls_made = <<>> THEN tables
    ELSE LET c == Head(calls_made)
         IN  Store(IF Len(c.table_data) > 1
                   THEN [tables EXCEPT ![c.table_type] =
                            AppendTable(@, _create_dataframe(c.table_data),
                                        [call |-> call, page |-> page, block |-> c.block])]
                   ELSE tables,
                   Tail(calls_made), call, page)

\* _process_page_elements: the regular pass over all elements, then the
\* delimited pass over the text elements
TextElements(elements) == Filter(elements, IsText)

PageCalls(elements) ==
    RegularCalls(elements)
    \o DelimitedCalls(_group_text_blocks(TextElements(elements)), 1)

_process_page_elements(tables, elements, call, page) ==
    Store(tables, PageCalls(elements), call, page)

(***************************************************************************)
(* create_excel_download and the previews of main                          *)
(***************************************************************************)
CategoryOrder == <<"regular_tables", "tab_separated", "colon_separated", "other_delimited">>

SheetLabel == [regular_tables |-> "Regular Table", tab_separated |-> "Tab Table",
               colon_separated |-> "Colon Table", other_delimited |-> "Delimited Table"]

PreviewLabel == [regular_tables |-> "Regular Table", tab_separated |-> "Tab-Separated Table",
                 colon_separated |-> "Colon-Separated Table",
                 other_delimited |-> "Delimited Table"]

RECURSIVE Sheets(_, _)
Sheets(tables, k) ==
    IF k > Len(CategoryOrder) THEN <<>>
    ELSE LET c == CategoryOrder[k]
         IN  [i \in 1..Len(tables[c]) |->
                [sheet_name |-> <<SheetLabel[c], i>>, table |-> tables[c][i].table]]
             \o Sheets(tables, k + 1)

create_excel_download(tables) == [kind |-> "download", sheets |-> Sheets(tables, 1)]

RECURSIVE Previews(_, _)
Previews(tables, k) ==
    IF k > Len(CategoryOrder) THEN <<>>
    ELSE LET c == CategoryOrder[k]
         IN  [i \in 1..Len(tables[c]) |->
                [kind |-> "expander", label |-> <<PreviewLabel[c], i>>,
                 columns |-> Len(tables[c][i].table.headers),
                 rows |-> Len(tables[c][i].table.rows)]]
             \o Previews(tables, k + 1)

Summary(tables) == [kind |-> "success", counts |-> [c \in Categories |-> Len(tables[c])]]

ErrorBox == [kind |-> "error"]

(***************************************************************************)
(* Inputs.  The Layout Provider (pdfminer's extract_pages) is outside the  *)
(* repository: the pages it yields are drawn from the sets below.          *)
(***************************************************************************)
MaxCalls == 2      \* extract_all_tables calls in a session
MaxPages == 3      \* pages the Layout Provider yields in a session
MaxElems == 3      \* elements of a generated page

\* a text container of height 1 unit, and a graphic
T(text, x0, y0) == [kind |-> "LTTextContainer", text |-> text, x0 |-> x0, y0 |-> y0, y1 |-> y0 + 2]
G(kind) == [kind |-> kind, text |-> <<>>, x0 |-> 0, y0 |-> 0, y1 |-> 2]

\* the pages of the documents of a session: a grid with a short row, a tab
\* block above a colon block, two blocks of other delimiters with a short and a
\* long row, prose, and a page without elements
PagePad == <<T(<<"A">>, 0, 1400), G("LTRect"), T(<<"B">>, 20, 1401), T(<<"C">>, 40, 1400),
             T(<<"1">>, 0, 1360), G("LTImage"), T(<<"2">>, 20, 1360)>>
PageTabColon == <<G("LTLine"),
                  T(<<"k", ":", "v", ":", "w", NL, "x", ":", SP, "y", NL>>, 0, 1400),
                  T(<<"a", TAB, "b", NL, "c", TAB, "d", NL>>, 0, 1500)>>
PageOther == <<T(<<"p", ";", "q", ";", "r", NL, "s", ";", "t", ";", "u", ";", "v">>, 0, 1300),
               T(<<"a", "|", "b", "|", "c", NL, "d", "|", "e">>, 0, 1400)>>
PageProse == <<T(<<"h", "i", ",", SP, "y", "o", "u">>, 0, 1400), G("LTFigure")>>

DocPages == {PagePad, PageTabColon, PageOther, PageProse, <<>>}

\* the truncation example: headers [A,B], row [1,2,3]
PageTruncate == <<T(<<"2">>, 20, 1360), T(<<"B", NL>>, 20, 1400), T(<<"A">>, 0, 1400),
                  T(<<"3">>, 40, 1360), T(<<"1">>, 0, 1360)>>

\* generated pages: positioned one-letter texts
LayoutTexts == {<<"a">>, <<"b", NL>>}
LayoutX0 == {0, 4}
LayoutY0 == {0, 1, 10, 20}
LayoutElems == {T(t, x, y) : t \in LayoutTexts, x \in LayoutX0, y \in LayoutY0}

\* generated pages: lines of text stacked 2 units apart, so that they form one block
LinePool == {<<"a", TAB, "b">>,
             <<"k", ":", "v", ":", "w">>,
             <<"k", ":", SP, "v">>,
             <<"x", "|", "y", "|", "z">>,
             <<"p", ";", "q", ";", "r", ";", "s">>,
             <<"1", ",", "2", ",", "3">>,
             <<SP, "a", SP, SP, "b", SP, ":", SP, "c", ":", "d", SP>>,
             <<"a", ":", "b", ":", "c", TAB, "d", "|", "e", "|", "f">>,
             <<"x", ";", "y", ";", "z", NL, "u", ",", "v", ",", "w">>,
             <<"h", "i">>}

SeqsUpTo(S, n) == UNION {[1..k -> S] : k \in 0..n}

LayoutPages == SeqsUpTo(LayoutElems, MaxElems)
TextPages == {[k \in 1..Len(ls) |-> T(ls[k], 0, 400 - 4 * k)] : ls \in SeqsUpTo(LinePool, MaxElems)}
GeneratedPages == LayoutPages \cup TextPages \cup DocPages \cup {PageTruncate}

(***************************************************************************)
(* State                                                                   *)
(***************************************************************************)
VARIABLES
    extractors,   \* the extractor objects constructed so far: each one's all_tables
    pc,           \* "idle", "iter" (inside extract_all_tables' loop), "done", "failed"
    calls,        \* number of extract_all_tables calls started
    page_no,      \* pages the current call has processed
    pages_read,   \* pages the Layout Provider has yielded in the session
    results,      \* what the calls returned: a reference to an extractor's all_tables
    ui,           \* what main's try block has put on the page in the current run
    tmp_exists,   \* main's temporary file
    elements,     \* the current call's last page: page_elements of extract_all_tables
    text_blocks,  \* that page's text_blocks in _extract_delimited_tables
    calls_made    \* that page's table_data: of the regular pass and of every
                  \* _process_delimited_table call

vars == <<extractors, pc, calls, page_no, pages_read, results, ui, tmp_exists,
          elements, text_blocks, calls_made>>

\* self.all_tables of the extractor in use
all_tables == extractors[Len(extractors)]

\* the tables a returned result shows now: it is the extractor's own dict
Deref(r) == extractors[r.ext]

Init ==
    /\ extractors = <<>>
    /\ pc = "idle"
    /\ calls = 0
    /\ page_no = 0
    /\ pages_read = 0
    /\ results = <<>>
    /\ ui = <<>>
    /\ tmp_exists = FALSE
    /\ elements = <<>>
    /\ text_blocks = <<>>
    /\ calls_made = <<>>

\* main, lines 189-198: a file is uploaded, written to a temporary file, a new
\* extractor is constructed and extract_all_tables is entered
MainStart ==
    /\ pc # "iter"
    /\ calls < MaxCalls
    /\ extractors' = Append(extractors, EmptyTables)
    /\ pc' = "iter"
    /\ calls' = calls + 1
    /\ page_no' = 0
    /\ ui' = <<>>
    /\ tmp_exists' = TRUE
    /\ elements' = <<>>
    /\ text_blocks' = <<>>
    /\ calls_made' = <<>>
    /\ UNCHANGED <<pages_read, results>>

\* a caller that keeps its extractor enters extract_all_tables again, for
\* another document: self.all_tables is the one __init__ made
CallAgain ==
    /\ pc # "iter"
    /\ extractors # <<>>
    /\ calls < MaxCalls
    /\ pc' = "iter"
    /\ calls' = calls + 1
    /\ page_no' = 0
    /\ ui' = <<>>
    /\ tmp_exists' = TRUE
    /\ elements' = <<>>
    /\ text_blocks' = <<>>
    /\ calls_made' = <<>>
    /\ UNCHANGED <<extractors, pages_read, results>>

\* extract_all_tables, lines 40-46: one iteration of the loop over the pages
ProcessPage(page_layout) ==
    /\ pc = "iter"
    /\ LET page_elements == Filter(page_layout, IsKept)
       IN  /\ extractors' = [extractors EXCEPT ![Len(extractors)] =
                   _process_page_elements(@, page_elements, calls, page_no + 1)]
           /\ elements' = page_elements
           /\ text_blocks' = _group_text_blocks(TextElements(page_elements))
           /\ calls_made' = PageCalls(page_elements)
    /\ page_no' = page_no + 1
    /\ pages_read' = pages_read + 1
    /\ UNCHANGED <<pc, calls, results, ui, tmp_exists>>

YieldPage ==
    /\ pages_read < MaxPages
    /\ \E page_layout \in DocPages : ProcessPage(page_layout)

\* a failure that is swallowed: the tables so far are returned and shown
ParseFailPartial ==
    /\ pc = "iter"
    /\ pc' = "failed"
    /\ results' = Append(results, [call |-> calls, ext |-> Len(extractors),
                                   returned |-> all_tables])
    /\ ui' = ui \o <<Summary(all_tables), create_excel_download(all_tables)>>
                \o Previews(all_tables, 1)
    /\ tmp_exists' = FALSE
    /\ UNCHANGED <<extractors, calls, page_no, pages_read, elements, text_blocks, calls_made>>

\* extract_pages raises: the exception leaves extract_all_tables and main's
\* try block; lines 246-250 show the error and unlink the file
ParseFail ==
    /\ pc = "iter"
    /\ pc' = "failed"
    /\ ui' = Append(ui, ErrorBox)
    /\ tmp_exists' = FALSE
    /\ UNCHANGED <<extractors, calls, page_no, pages_read, results, elements,
                   text_blocks, calls_made>>

\* the pages are exhausted: line 48 returns self.all_tables, lines 201-244 show
\* the summary, the download link and the previews, line 250 unlinks the file
Return ==
    /\ pc = "iter"
    /\ pc' = "done"
    /\ results' = Append(results, [call |-> calls, ext |-> Len(extractors),
                                   returned |-> all_tables])
    /\ ui' = ui \o <<Summary(all_tables), create_excel_download(all_tables)>>
                \o Previews(all_tables, 1)
    /\ tmp_exists' = FALSE
    /\ UNCHANGED <<extractors, calls, page_no, pages_read, elements, text_blocks, calls_made>>

Next == MainStart \/ CallAgain \/ YieldPage \/ ParseFail \/ Return

Spec == Init /\ [][Next]_vars

\* page-level specification: main starts once and the Layout Provider yields
\* one generated page
FirstStart ==
    /\ calls = 0
    /\ MainStart

YieldGenerated ==
    /\ pages_read = 0
    /\ \E page_layout \in GeneratedPages : ProcessPage(page_layout)

NextPage == FirstStart \/ YieldGenerated

SpecPage == Init /\ [][NextPage]_vars

(***************************************************************************)
(* Properties                                                              *)
(***************************************************************************)
\* the tables of `tables` under table_type c that came from block b of the
\* page processed last
StoredFor(tables, c, b) ==
    {k \in 1..Len(tables[c]) :
        tables[c][k].src = [call |-> calls, page |-> page_no, block |-> b]}

AllStored(tables) ==
    UNION {{tables[c][k].table : k \in 1..Len(tables[c])} : c \in Categories}

Ragged(td, Cmp(_, _)) == \E r \in 2..Len(td) : Cmp(Len(td[r]), Len(td[1]))

\* C1: every table stored in any of the four categories, of any extractor, is
\* rectangular: each data row has exactly as many cells as the header row.
C1_Rectangular ==
    \A i \in 1..Len(extractors) : \A t \in AllStored(extractors[i]) :
        \A r \in 1..Len(t.rows) : Len(t.rows[r]) = Len(t.headers)

\* C1 witness: the last page stored a table whose raw rows were shorter than the
\* header and one whose raw rows were longer.
C1_Witness ==
    /\ \E k \in 1..Len(calls_made) :
          /\ Ragged(calls_made[k].table_data, <)
          /\ StoredFor(all_tables, calls_made[k].table_type, calls_made[k].block) # {}
    /\ \E k \in 1..Len(calls_made) :
          /\ Ragged(calls_made[k].table_data, >)
          /\ StoredFor(all_tables, calls_made[k].table_type, calls_made[k].block) # {}

\* C2: a raw table of at least 2 rows is stored with row 0 as the headers and
\* every later row, in order, cut to its first len(headers) cells, filled up
\* with empty strings to len(headers) cells, or unchanged when it has
\* len(headers) cells.
C2_Normalized ==
    extractors # <<>> =>
    \A k \in 1..Len(calls_made) :
        LET td == calls_made[k].table_data
            stored == StoredFor(all_tables, calls_made[k].table_type, calls_made[k].block)
        IN  Len(td) > 1 =>
            /\ Cardinality(stored) = 1
            /\ \A n \in stored :
                 LET t == all_tables[calls_made[k].table_type][n].table
                 IN  /\ t.headers = td[1]
                     /\ Len(t.rows) = Len(td) - 1
                     /\ \A r \in 1..Len(t.rows) :
                          /\ Len(t.rows[r]) = Len(td[1])
                          /\ \A j \in 1..Len(td[1]) :
                               t.rows[r][j] = IF j <= Len(td[r + 1]) THEN td[r + 1][j] ELSE <<>>
                          /\ Len(td[r + 1]) = Len(td[1]) => t.rows[r] = td[r + 1]

\* C2 witness: the truncation example, headers [A,B] with row [1,2,3] stored as
\* [1,2].
C2_Witness ==
    /\ calls_made # <<>>
    /\ calls_made[1].table_data = <<<< <<"A">>, <<"B">> >>, << <<"1">>, <<"2">>, <<"3">> >>>>
    /\ \E n \in 1..Len(all_tables.regular_tables) :
          all_tables.regular_tables[n].table =
              [headers |-> << <<"A">>, <<"B">> >>, rows |-> << << <<"1">>, <<"2">> >> >>]

\* the delimiters in the order of their priority, and what makes a block's
\* lines qualify for one
Priority == <<TAB, ":", "|", ";", ",">>

TypeOf(d) == IF d = TAB THEN "tab_separated"
             ELSE IF d = ":" THEN "colon_separated" ELSE "other_delimited"

Qualifies(lines, d) ==
    \E i \in 1..Len(lines) :
        Cardinality({j \in 1..Len(lines[i]) : lines[i][j] = d}) > (IF d = TAB THEN 0 ELSE 1)

CallsFor(b) == {k \in 1..Len(calls_made) : calls_made[k].block = b}

\* C3: a block is processed for at most one delimiter, the first of tab, ':',
\* '|', ';', ',' its lines qualify for, and adds at most one table, to that
\* delimiter's category only: a block with a tab adds nothing to colon_separated
\* or other_delimited, a block qualifying for ':' nothing to other_delimited.
C3_Priority ==
    \A b \in 1..Len(text_blocks) :
        LET lines == Split(text_blocks[b], NL)
            first == {k \in 1..Len(Priority) :
                        /\ Qualifies(lines, Priority[k])
                        /\ \A m \in 1..(k - 1) : ~Qualifies(lines, Priority[m])}
            added(c) == StoredFor(all_tables, c, b)
        IN  /\ Cardinality(CallsFor(b)) = Cardinality(first)
            /\ \A k \in CallsFor(b) : \A m \in first :
                  /\ calls_made[k].delimiter = Priority[m]
                  /\ calls_made[k].table_type = TypeOf(Priority[m])
                  /\ calls_made[k].lines = lines
            /\ Cardinality(UNION {added(c) : c \in Categories}) <= 1
            /\ \A c \in Categories :
                  added(c) # {} => \E m \in first : c = TypeOf(Priority[m])
            /\ Qualifies(lines, TAB) =>
                  added("colon_separated") = {} /\ added("other_delimited") = {}
            /\ Qualifies(lines, ":") => added("other_delimited") = {}

\* C3 witness: a block with a tab on one line and two colons on another line
\* that has no tab has added a table to tab_separated.
C3_Witness ==
    \E b \in 1..Len(text_blocks) :
        LET lines == Split(text_blocks[b], NL)
        IN  /\ \E i \in 1..Len(lines) : Contains(lines[i], TAB)
            /\ \E i \in 1..Len(lines) : ~Contains(lines[i], TAB) /\ Count(lines[i], ":") > 1
            /\ StoredFor(all_tables, "tab_separated", b) # {}

\* the orders in which a page's elements can be supplied
Reorderings(s) ==
    {[k \in 1..Len(s) |-> s[f[k]]] :
        f \in {g \in [1..Len(s) -> 1..Len(s)] : \A i, j \in 1..Len(s) : g[i] = g[j] => i = j}}

\* C4: the rows of the regular pass are in strictly descending order of
\* round(y0), the cells of a row in ascending order of x0, and the raw table is
\* the same for every order in which the page's elements are supplied, also
\* when two elements of a row have the same x0.
C4_Deterministic ==
    calls_made # <<>> =>
        LET rows == RowElements(elements)
        IN  /\ \A k \in 1..(Len(rows) - 1) :
                  Round(rows[k][1].y0) > Round(rows[k + 1][1].y0)
            /\ \A k \in 1..Len(rows) : \A j \in 1..(Len(rows[k]) - 1) :
                  rows[k][j].x0 <= rows[k][j + 1].x0
            /\ \A other \in Reorderings(elements) :
                  RegularTableData(other) = calls_made[1].table_data

\* a page of prose: text elements only, no line with a tab or with two of ':',
\* '|', ';', ',', no two elements with the same round(y0)
Prose(page_elements) ==
    /\ \A i \in 1..Len(page_elements) :
          /\ IsText(page_elements[i])
          /\ \A d \in {Priority[k] : k \in 1..Len(Priority)} :
                ~Qualifies(Split(page_elements[i].text, NL), d)
    /\ \A i, j \in 1..Len(page_elements) :
          Round(page_elements[i].y0) = Round(page_elements[j].y0) => i = j

\* C5: a page of prose adds no table to any of the four categories, however
\* many elements it has.
C5_ProseYieldsNothing ==
    (page_no = 1 /\ Prose(elements)) => all_tables = EmptyTables

\* C6: a _process_delimited_table call makes one raw row per line that contains
\* the delimiter, in line order, skipping the other lines; a line with k
\* delimiters gives a row of k + 1 cells, the trimmed pieces of the
\* whitespace-normalized line; for each of the five delimiters.
C6_RowPerLine ==
    \A n \in 1..Len(calls_made) :
        calls_made[n].block > 0 =>
            LET d == calls_made[n].delimiter
                lines == calls_made[n].lines
                with == SelectIdx(Len(lines), {i \in 1..Len(lines) : Count(lines[i], d) > 0})
                td == calls_made[n].table_data
            IN  /\ Len(td) = Len(with)
                /\ \A r \in 1..Len(td) :
                      LET pieces == Split(CollapseWhitespace(Strip(lines[with[r]])), d)
                      IN  /\ Len(td[r]) = Count(lines[with[r]], d) + 1
                          /\ td[r] = [j \in 1..Len(pieces) |-> Strip(pieces[j])]

Srcs(tables) == UNION {{tables[c][k].src : k \in 1..Len(tables[c])} : c \in Categories}

\* C7: a call's ResultSet is empty when the call starts, what a call returns
\* holds the tables of that call's document only, and no later call changes a
\* result already returned; also for calls on one extractor object.
C7_FreshResultPerCall ==
    /\ (pc = "iter" /\ page_no = 0) => all_tables = EmptyTables
    /\ \A n \in 1..Len(results) :
          /\ \A src \in Srcs(results[n].returned) : src.call = results[n].call
          /\ Deref(results[n]) = results[n].returned

\* C8: when the Layout Provider fails, on the first page or later, the run shows
\* one error and nothing else (no summary, no download link, no preview), and
\* the call returns no result.
C8_FailureReturnsNothing ==
    pc = "failed" =>
        /\ ui = <<ErrorBox>>
        /\ \A n \in 1..Len(results) : results[n].call # calls

\* C8 witness: the failure comes after two pages, which have added tables.
C8_Witness ==
    /\ pc = "failed"
    /\ page_no >= 2
    /\ \E src \in Srcs(all_tables) : src.call = calls

IsPrefix(s, t) == Len(s) <= Len(t) /\ SubSeq(t, 1, Len(s)) = s

SrcBefore(a, b) ==
    \/ a.call < b.call
    \/ a.call = b.call /\ a.page < b.page
    \/ a.call = b.call /\ a.page = b.page /\ a.block < b.block

\* C9: a step only appends to the lists of an extractor (nothing is removed,
\* replaced, reordered or moved to another category); every table it appends
\* comes from one block of the page just processed, into that block's
\* category; and each list stays in page order, then block order.
C9_Step ==
    \A i \in 1..Len(extractors) : \A c \in Categories :
        LET old == extractors[i][c]
            new == extractors'[i][c]
        IN  /\ IsPrefix(old, new)
            /\ \A k \in (Len(old) + 1)..Len(new) :
                  /\ new[k].src.call = calls' /\ new[k].src.page = page_no'
                  /\ \E n \in 1..Len(calls_made') :
                        /\ calls_made'[n].block = new[k].src.block
                        /\ calls_made'[n].table_type = c
                        /\ new[k].table.headers = calls_made'[n].table_data[1]
                        /\ Len(new[k].table.rows) = Len(calls_made'[n].table_data) - 1
            /\ \A k \in 1..(Len(new) - 1) : SrcBefore(new[k].src, new[k + 1].src)

C9_InsertionOrder == [][C9_Step]_vars

\* C9 witness: other_delimited holds the tables of two blocks of one page,
\* followed by a table of a later page.
C9_Witness ==
    /\ extractors # <<>>
    /\ \E k \in 1..(Len(all_tables.other_delimited) - 2) :
          LET t == all_tables.other_delimited
          IN  /\ t[k].src.page = t[k + 1].src.page
              /\ t[k].src.block < t[k + 1].src.block
              /\ t[k + 1].src.page < t[k + 2].src.page

\* C10: the blocks are the text elements in (y1 descending, x0 ascending)
\* order, cut before every element whose y1 is more than min_row_gap away from
\* the y1 of the element just before it, and nowhere else; each block is the
\* newline join of its elements' raw texts; no elements, no blocks.
C10_Blocks ==
    calls_made # <<>> =>
        LET S == StableSort(TextElements(elements), LessY1X0)
            n == Len(S)
            starts == {i \in 1..n : i = 1 \/ Abs(S[i - 1].y1 - S[i].y1) > 2 * min_row_gap}
            last(i) == IF \E j \in starts : j > i
                       THEN (CHOOSE j \in starts :
                                j > i /\ \A m \in starts : m > i => j <= m) - 1
                       ELSE n
            nth(k) == CHOOSE i \in starts : Cardinality({j \in starts : j <= i}) = k
        IN  /\ \A i \in 1..(n - 1) :
                  \/ S[i].y1 > S[i + 1].y1
                  \/ S[i].y1 = S[i + 1].y1 /\ S[i].x0 <= S[i + 1].x0
            /\ Len(text_blocks) = Cardinality(starts)
            /\ \A k \in 1..Len(text_blocks) :
                  text_blocks[k] =
                      Join([j \in 1..(last(nth(k)) - nth(k) + 1) |-> S[nth(k) + j - 1].text], NL)

\* C10 witness: three elements, each within min_row_gap of the one before it,
\* the last more than min_row_gap below the first, in one block.
C10_Witness ==
    /\ calls_made # <<>>
    /\ Len(text_blocks) = 1
    /\ LET S == StableSort(TextElements(elements), LessY1X0)
       IN  Len(S) = 3 /\ S[1].y1 - S[3].y1 > 2 * min_row_gap
=============================================================================
